---- MODULE Spec2Model ----
(***************************************************************************)
(* Model of src/documorph.py: the DocuMorphEngine (a wrapper around a     *)
(* python-docx Document), the template helpers and the Streamlit shell.   *)
(*                                                                         *)
(* A document is a record                                                  *)
(*   [body: Seq(Paragraph), sections: Seq(Section)]                        *)
(* a paragraph  [style, runs, line, alignment]                             *)
(* a run        [text, name, sz, pic]                                      *)
(* a section    [header, footer, margins], header/footer being            *)
(*   [linked: BOOLEAN, paras: Seq(Paragraph)]                              *)
(* (linked = "is_linked_to_previous": the section has no definition of    *)
(* its own and shows the one of the nearest earlier section that has).    *)
(* An optional value (None in Python) is the empty sequence <<>>, a set   *)
(* one the one-element sequence <<v>>; an unset string is "None".          *)
(***************************************************************************)
EXTENDS Integers, Sequences, FiniteSets, TLC

VARIABLES
    doc,            \* engine.document, the Document the engine wraps
    prev,           \* the Document as it was before the last engine call
    log,            \* the engine calls made so far, oldest first
    uploaded_file,  \* shell: "Upload base DOCX" (<<>> or <<document>>)
    logo,           \* shell: "Upload Logo" (<<>> or <<image>>)
    section_title,  \* shell: "Section Title" text input
    bullets_input,  \* shell: "Bullet List" text area
    figure,         \* shell: "Insert Figure" (<<>> or <<image>>)
    caption,        \* shell: "Caption" text input
    caption_pos,    \* shell: "Caption Position" radio
    new_name,       \* shell: "Save current as" text input
    session_state,  \* shell: st.session_state, the mapping saved as a template
    templates,      \* the files of TEMPLATE_DIR: file name -> JSON text
    run             \* what the last button handler of the shell did

engineVars == <<doc, prev, log>>
shellVars == <<uploaded_file, logo, section_title, bullets_input, figure, caption,
               caption_pos, new_name, session_state, templates, run>>
vars == <<doc, prev, log, uploaded_file, logo, section_title, bullets_input, figure,
          caption, caption_pos, new_name, session_state, templates, run>>

\* The number of engine calls a behaviour of Spec makes.
MaxOps == 2

---------------------------------------------------------------------------
(* Lengths: docx.shared.Pt / Inches give EMU; the XML keeps half-points   *)
(* (w:sz) and twips (w:pgMar, w:spacing).                                  *)

\* Pt(points) in EMU.
Pt(points) == points * 12700

\* Inches(x) in EMU; x is given in tenths of an inch (the shell's step is 0.1).
Inches(tenths) == tenths * 91440

\* run.font.size = length: kept as w:sz, in half-points.
HalfPoints(emu) == (2 * emu) \div 12700

\* run.font.size.pt read back from w:sz.
FontSizePt(r) == (r.sz[1] * 6350) \div 12700

\* section.top_margin = length: kept as w:pgMar, in twips.
Twips(emu) == emu \div 635

\* paragraph_format.line_spacing = multiple: kept as w:spacing/@w:line, in 240ths
\* of a line; the multiple is given in hundredths (1.15 is 115).
LineOf(hundredths) == (hundredths * 240) \div 100

---------------------------------------------------------------------------
(* python-docx objects the engine creates.                                 *)

TextRun(text) == [text |-> text, name |-> "None", sz |-> <<>>, pic |-> <<>>]

PictureRun(image, width, height) ==
    [text |-> "", name |-> "None", sz |-> <<>>,
     pic |-> <<[image |-> image, cx |-> Inches(width), cy |-> Inches(height)]>>]

\* add_paragraph(text, style): a run is added only for a non-empty text.
NewParagraph(text, style) ==
    [style |-> style,
     runs |-> IF Len(text) > 0 THEN <<TextRun(text)>> ELSE <<>>,
     line |-> <<>>,
     alignment |-> "None"]

\* paragraph.text = text: clear() drops every run (the paragraph's properties
\* stay), then add_run(text) adds one run, also for an empty text.
SetText(p, text) == [p EXCEPT !.runs = <<TextRun(text)>>]

\* The section whose definition section i shows for kind ("header" or "footer").
RECURSIVE Owner(_, _, _)
Owner(secs, i, kind) ==
    IF i = 1 \/ ~secs[i][kind].linked THEN i ELSE Owner(secs, i - 1, kind)

DefaultStyle(kind) == IF kind = "header" THEN "Header" ELSE "Footer"

\* Reading hdr.paragraphs (or unlinking the first section) adds a definition,
\* holding one empty paragraph, when no section up to i has one.
GetOrAddDefinition(secs, i, kind) ==
    LET j == Owner(secs, i, kind) IN
    IF secs[j][kind].linked
    THEN [secs EXCEPT ![j][kind] =
              [linked |-> FALSE, paras |-> <<NewParagraph("", DefaultStyle(kind))>>]]
    ELSE secs

\* The paragraphs section i shows for kind.
Paragraphs(secs, i, kind) == secs[Owner(secs, i, kind)][kind].paras

---------------------------------------------------------------------------
(* DocuMorphEngine: global formatting.                                     *)

set_font_first_run_only(d, font_name, font_size) ==
    [d EXCEPT !.body =
        [p \in DOMAIN d.body |->
            IF d.body[p].runs = <<>> THEN d.body[p]
            ELSE [d.body[p] EXCEPT !.runs[1].name = font_name,
                                   !.runs[1].sz = <<HalfPoints(Pt(font_size))>>]]]

set_font(d, font_name, font_size) ==
    [d EXCEPT !.body =
        [p \in DOMAIN d.body |->
            [d.body[p] EXCEPT !.runs =
                [r \in DOMAIN d.body[p].runs |->
                    [d.body[p].runs[r] EXCEPT !.name = font_name,
                                              !.sz = <<HalfPoints(Pt(font_size))>>]]]]]

set_line_spacing(d, spacing) ==
    [d EXCEPT !.body =
        [p \in DOMAIN d.body |-> [d.body[p] EXCEPT !.line = <<LineOf(spacing)>>]]]

\* align_map.get(alignment, WD_ALIGN_PARAGRAPH.LEFT) of set_alignment.
align_map(alignment) ==
    CASE alignment = "Left" -> "LEFT"
      [] alignment = "Center" -> "CENTER"
      [] alignment = "Right" -> "RIGHT"
      [] alignment = "Justify" -> "JUSTIFY"
      [] OTHER -> "LEFT"

set_alignment(d, alignment) ==
    [d EXCEPT !.body =
        [p \in DOMAIN d.body |-> [d.body[p] EXCEPT !.alignment = align_map(alignment)]]]

set_margins_all(d, top, bottom, left, right) ==
    [d EXCEPT !.sections =
        [i \in DOMAIN d.sections |->
            [d.sections[i] EXCEPT !.margins =
                [top |-> Twips(Inches(top)), bottom |-> Twips(Inches(bottom)),
                 left |-> Twips(Inches(left)), right |-> Twips(Inches(right))]]]]

set_margins(d, top, bottom, left, right) ==
    [d EXCEPT !.sections[1].margins =
        [top |-> Twips(Inches(top)), bottom |-> Twips(Inches(bottom)),
         left |-> Twips(Inches(left)), right |-> Twips(Inches(right))]]

---------------------------------------------------------------------------
(* DocuMorphEngine: logo, header and footer.                               *)

LogoParagraph(image, width, height) ==
    [NewParagraph("", "None") EXCEPT !.runs = <<PictureRun(image, width, height)>>]

add_logo_appended(d, image_file, width, height) ==
    LET s1 == GetOrAddDefinition(d.sections, 1, "header")
        ps == s1[1].header.paras
        first == IF ps # <<>> THEN ps ELSE <<NewParagraph("", "None")>>
    IN  [d EXCEPT !.sections =
            [s1 EXCEPT ![1].header.paras =
                first \o <<LogoParagraph(image_file, width, height)>>]]

add_logo(d, image_file, width, height) ==
    LET \* hdr.is_linked_to_previous = False
        s1 == GetOrAddDefinition(d.sections, 1, "header")
        ps == s1[1].header.paras
        \* hdr.paragraphs[0] if hdr.paragraphs else hdr.add_paragraph()
        first == IF ps # <<>> THEN ps ELSE <<NewParagraph("", "None")>>
    IN  \* first_para.insert_paragraph_before(), add_run().add_picture(...)
        [d EXCEPT !.sections =
            [s1 EXCEPT ![1].header.paras =
                <<LogoParagraph(image_file, width, height)>> \o first]]

hf_align_map_with_justify(align) ==
    CASE align = "Left" -> "LEFT"
      [] align = "Center" -> "CENTER"
      [] align = "Right" -> "RIGHT"
      [] align = "Justify" -> "JUSTIFY"
      [] OTHER -> "LEFT"

\* align_map.get(align, WD_ALIGN_PARAGRAPH.LEFT) of set_header_footer.
hf_align_map(align) ==
    CASE align = "Left" -> "LEFT"
      [] align = "Center" -> "CENTER"
      [] align = "Right" -> "RIGHT"
      [] OTHER -> "LEFT"

hf_apply_runs_before(p, text, size, align) ==
    LET q == SetText(p, text)
        r == IF p.runs # <<>>
             THEN [q EXCEPT !.runs[1].sz = <<HalfPoints(Pt(size))>>]
             ELSE q
    IN  [r EXCEPT !.alignment = hf_align_map(align)]

\* What one target paragraph undergoes: p.text = text, then, the paragraph as
\* it is after that assignment, "if p.runs: p.runs[0].font.size = Pt(size)" and
\* "p.alignment = ...".
hf_apply(p, text, size, align) ==
    LET q == SetText(p, text)
        r == IF q.runs # <<>>
             THEN [q EXCEPT !.runs[1].sz = <<HalfPoints(Pt(size))>>]
             ELSE q
    IN  [r EXCEPT !.alignment = hf_align_map(align)]

\* hdr.add_paragraph() / ftr.add_paragraph() when the part shows no paragraph.
EnsureParagraph(secs, i, kind) ==
    LET s1 == GetOrAddDefinition(secs, i, kind)
        j == Owner(s1, i, kind)
    IN  IF s1[j][kind].paras = <<>>
        THEN [s1 EXCEPT ![j][kind].paras = <<NewParagraph("", "None")>>]
        ELSE s1

hf_section_always_adds(secs, i, h_text, f_text, size, align) ==
    LET s1 == GetOrAddDefinition(secs, i, "header")
        jh == Owner(s1, i, "header")
        s2 == [s1 EXCEPT ![jh].header.paras = @ \o <<NewParagraph("", "None")>>]
        s3 == EnsureParagraph(s2, i, "footer")
        jf == Owner(s3, i, "footer")
        hn == Len(s3[jh].header.paras)
        s4 == [s3 EXCEPT ![jh].header.paras[hn] = hf_apply(@, h_text, size, align)]
    IN  [s4 EXCEPT ![jf].footer.paras[1] = hf_apply(@, f_text, size, align)]

\* The body of "for sec in self.document.sections" for section i.
hf_section(secs, i, h_text, f_text, size, align) ==
    LET s2 == EnsureParagraph(secs, i, "header")
        jh == Owner(s2, i, "header")
        s3 == EnsureParagraph(s2, i, "footer")
        jf == Owner(s3, i, "footer")
        hn == Len(s3[jh].header.paras)      \* h_para = hdr.paragraphs[-1]
        s4 == [s3 EXCEPT ![jh].header.paras[hn] = hf_apply(@, h_text, size, align)]
    IN  \* f_para = ftr.paragraphs[0]
        [s4 EXCEPT ![jf].footer.paras[1] = hf_apply(@, f_text, size, align)]

\* Sections i.. of the loop, in document order.
RECURSIVE hf_sections(_, _, _, _, _, _)
hf_sections(secs, i, h_text, f_text, size, align) ==
    IF i > Len(secs)
    THEN secs
    ELSE hf_sections(hf_section(secs, i, h_text, f_text, size, align),
                     i + 1, h_text, f_text, size, align)

set_header_footer(d, h_text, f_text, size, align) ==
    [d EXCEPT !.sections = hf_sections(d.sections, 1, h_text, f_text, size, align)]

---------------------------------------------------------------------------
(* DocuMorphEngine: content helpers.                                       *)

\* document.add_heading(title, level=1)
add_section_title(d, title) ==
    [d EXCEPT !.body = Append(@, NewParagraph(title, "Heading 1"))]

add_bullet_list(d, items) ==
    [d EXCEPT !.body =
        @ \o [k \in 1..Len(items) |-> NewParagraph(items[k], "List Bullet")]]

PictureParagraph(image, w, h) ==
    [NewParagraph("", "None") EXCEPT !.runs = <<PictureRun(image, w, h)>>]

add_figure_caption_last(d, image, w, h, caption_text, pos) ==
    [d EXCEPT !.body =
        @ \o <<PictureParagraph(image, w, h)>>
          \o (IF Len(caption_text) > 0
              THEN <<NewParagraph(caption_text, "Caption")>> ELSE <<>>)]

add_figure(d, image, w, h, caption_text, pos) ==
    [d EXCEPT !.body =
        @ \o (IF pos = "Above" /\ Len(caption_text) > 0
              THEN <<NewParagraph(caption_text, "Caption")>> ELSE <<>>)
          \o <<PictureParagraph(image, w, h)>>
          \o (IF pos = "Below" /\ Len(caption_text) > 0
              THEN <<NewParagraph(caption_text, "Caption")>> ELSE <<>>)]

---------------------------------------------------------------------------
(* The documents an engine is constructed from: DocuMorphEngine(docx_file) *)
(* opens an existing document, DocuMorphEngine() a new one.                *)

DefaultMargins == [top |-> 1440, bottom |-> 1440, left |-> 1800, right |-> 1800]

NoDefinition == [linked |-> TRUE, paras |-> <<>>]

\* Document(): no body paragraph, one section, no header or footer definition.
BlankDocument ==
    [body |-> <<>>,
     sections |-> <<[header |-> NoDefinition, footer |-> NoDefinition,
                     margins |-> DefaultMargins]>>]

\* A two-section document: runs of several fonts, a paragraph without runs,
\* a header of two paragraphs, a second section that shows the first one's
\* header and has a footer of its own.
ReportDocument ==
    [body |->
        <<[style |-> "Normal",
           runs |-> <<[text |-> "Hello", name |-> "Calibri", sz |-> <<22>>, pic |-> <<>>],
                      [text |-> "World", name |-> "None", sz |-> <<>>, pic |-> <<>>]>>,
           line |-> <<>>, alignment |-> "RIGHT"],
          [style |-> "Normal", runs |-> <<>>, line |-> <<360>>, alignment |-> "None"]>>,
     sections |->
        <<[header |-> [linked |-> FALSE, paras |->
              <<[style |-> "Header",
                 runs |-> <<[text |-> "Draft", name |-> "Arial", sz |-> <<28>>, pic |-> <<>>]>>,
                 line |-> <<>>, alignment |-> "None"],
                [style |-> "Header", runs |-> <<>>, line |-> <<>>, alignment |-> "RIGHT"]>>],
           footer |-> [linked |-> FALSE, paras |->
              <<[style |-> "Footer", runs |-> <<>>, line |-> <<>>, alignment |-> "None"]>>],
           margins |-> DefaultMargins],
          [header |-> NoDefinition,
           footer |-> [linked |-> FALSE, paras |->
              <<[style |-> "Footer",
                 runs |-> <<[text |-> "p.", name |-> "None", sz |-> <<18>>, pic |-> <<>>],
                            [text |-> "1", name |-> "None", sz |-> <<18>>, pic |-> <<>>]>>,
                 line |-> <<>>, alignment |-> "None"],
                [style |-> "Footer", runs |-> <<>>, line |-> <<>>, alignment |-> "None"]>>],
           margins |-> [top |-> 720, bottom |-> 720, left |-> 720, right |-> 720]]>>]

\* A document whose header and footer definitions hold no paragraph at all.
BareDocument ==
    [body |->
        <<[style |-> "Title",
           runs |-> <<[text |-> "Memo", name |-> "Georgia", sz |-> <<>>, pic |-> <<>>]>>,
           line |-> <<>>, alignment |-> "CENTER"]>>,
     sections |-> <<[header |-> [linked |-> FALSE, paras |-> <<>>],
                     footer |-> [linked |-> FALSE, paras |-> <<>>],
                     margins |-> DefaultMargins]>>]

BaseDocuments == {BlankDocument, ReportDocument, BareDocument}

---------------------------------------------------------------------------
(* The arguments the engine's operations are called with.                  *)

FontNames == {"Arial", "Georgia"}
FontSizes == {8, 24}
Spacings == {100, 115}
Alignments == {"Left", "Center", "Right", "Justify", "Middle"}
MarginArgs == {<<10, 10, 10, 10>>, <<5, 20, 15, 30>>}
HeaderTexts == {"", "Report"}
FooterTexts == {"Page"}
HFSizes == {10}
HFAlignments == {"Left", "Center", "Justify"}
Titles == {"Intro"}
BulletLists == {<<>>, <<"a", "b">>}
Captions == {"", "Fig 1"}
Positions == {"Above", "Below", "Inline"}

Call(op, args) == [op |-> op, args |-> args]

---------------------------------------------------------------------------
(* The engine as a state machine: one action per method.                   *)

SetFont ==
    /\ Len(log) < MaxOps
    /\ \E font_name \in FontNames, font_size \in FontSizes :
          /\ doc' = set_font(doc, font_name, font_size)
          /\ log' = Append(log, Call("set_font", <<font_name, font_size>>))
    /\ prev' = doc
    /\ UNCHANGED shellVars

SetLineSpacing ==
    /\ Len(log) < MaxOps
    /\ \E spacing \in Spacings :
          /\ doc' = set_line_spacing(doc, spacing)
          /\ log' = Append(log, Call("set_line_spacing", <<spacing>>))
    /\ prev' = doc
    /\ UNCHANGED shellVars

SetAlignment ==
    /\ Len(log) < MaxOps
    /\ \E alignment \in Alignments :
          /\ doc' = set_alignment(doc, alignment)
          /\ log' = Append(log, Call("set_alignment", <<alignment>>))
    /\ prev' = doc
    /\ UNCHANGED shellVars

SetMargins ==
    /\ Len(log) < MaxOps
    /\ \E m \in MarginArgs :
          /\ doc' = set_margins(doc, m[1], m[2], m[3], m[4])
          /\ log' = Append(log, Call("set_margins", m))
    /\ prev' = doc
    /\ UNCHANGED shellVars

AddLogo ==
    /\ Len(log) < MaxOps
    /\ doc' = add_logo(doc, "logo.png", 10, 5)
    /\ log' = Append(log, Call("add_logo", <<"logo.png", 10, 5>>))
    /\ prev' = doc
    /\ UNCHANGED shellVars

SetHeaderFooter ==
    /\ Len(log) < MaxOps
    /\ \E h_text \in HeaderTexts, f_text \in FooterTexts,
          size \in HFSizes, align \in HFAlignments :
          /\ doc' = set_header_footer(doc, h_text, f_text, size, align)
          /\ log' = Append(log, Call("set_header_footer", <<h_text, f_text, size, align>>))
    /\ prev' = doc
    /\ UNCHANGED shellVars

AddSectionTitle ==
    /\ Len(log) < MaxOps
    /\ \E title \in Titles :
          /\ doc' = add_section_title(doc, title)
          /\ log' = Append(log, Call("add_section_title", <<title>>))
    /\ prev' = doc
    /\ UNCHANGED shellVars

AddBulletList ==
    /\ Len(log) < MaxOps
    /\ \E items \in BulletLists :
          /\ doc' = add_bullet_list(doc, items)
          /\ log' = Append(log, Call("add_bullet_list", <<items>>))
    /\ prev' = doc
    /\ UNCHANGED shellVars

AddFigure ==
    /\ Len(log) < MaxOps
    /\ \E caption_text \in Captions, pos \in Positions :
          /\ doc' = add_figure(doc, "fig.png", 40, 30, caption_text, pos)
          /\ log' = Append(log, Call("add_figure", <<"fig.png", 40, 30, caption_text, pos>>))
    /\ prev' = doc
    /\ UNCHANGED shellVars

---------------------------------------------------------------------------
(* Template manager helpers.  TEMPLATE_DIR is a mapping from file names,   *)
(* <<stem, extension>>, to the JSON text of the file.  A Python mapping is *)
(* the sequence of its [key, value] items, in insertion order; a Python    *)
(* value is [t |-> "float" | "list" | "tuple", v |-> ...].                 *)

\* f"{name}.json" in TEMPLATE_DIR
JsonFile(name) == <<name, ".json">>

\* json.dump of one value: lists and tuples both become arrays.
json_encode(value) ==
    IF value.t \in {"list", "tuple"}
    THEN [t |-> "array", v |-> value.v]
    ELSE [t |-> "number", v |-> value.v]

\* json.load of one value: an array becomes a list.
json_decode(j) ==
    IF j.t = "array" THEN [t |-> "list", v |-> j.v] ELSE [t |-> "float", v |-> j.v]

\* json.dump(cfg, file): the object's members, in the mapping's order.
json_dump(cfg) == [k \in 1..Len(cfg) |-> <<cfg[k].key, json_encode(cfg[k].value)>>]

\* json.load(file)
json_load(text) ==
    [k \in 1..Len(text) |-> [key |-> text[k][1], value |-> json_decode(text[k][2])]]

list_templates(dir) == {f[1] : f \in {g \in DOMAIN dir : g[2] = ".json"}}

\* The call's outcome: the exception it raises ("None" when it returns) and
\* the mapping it returns.
load_template(dir, name) ==
    IF name # ""
    THEN IF JsonFile(name) \in DOMAIN dir
         THEN [raised |-> "None", value |-> json_load(dir[JsonFile(name)])]
         ELSE [raised |-> "FileNotFoundError", value |-> <<>>]
    ELSE [raised |-> "None", value |-> <<>>]

save_template(dir, name, cfg) ==
    [f \in DOMAIN dir \cup {JsonFile(name)} |->
        IF f = JsonFile(name) THEN json_dump(cfg) ELSE dir[f]]

delete_template(dir, name) == [f \in DOMAIN dir \ {JsonFile(name)} |-> dir[f]]

---------------------------------------------------------------------------
(* Streamlit shell.  A text typed into a widget is a tuple of characters,  *)
(* so that strip() and splitlines() are computed.                          *)

Whitespace == {" ", "\n", "\t"}

\* str.strip()
RECURSIVE Strip(_)
Strip(s) ==
    IF s = <<>> THEN s
    ELSE IF s[1] \in Whitespace THEN Strip(Tail(s))
    ELSE IF s[Len(s)] \in Whitespace THEN Strip(SubSeq(s, 1, Len(s) - 1))
    ELSE s

\* str.splitlines()
RECURSIVE SplitLines(_)
SplitLines(s) ==
    IF s = <<>> THEN <<>>
    ELSE LET breaks == {k \in 1..Len(s) : s[k] = "\n"} IN
         IF breaks = {} THEN <<s>>
         ELSE LET k == CHOOSE b \in breaks : \A c \in breaks : b <= c IN
              <<SubSeq(s, 1, k - 1)>> \o SplitLines(SubSeq(s, k + 1, Len(s)))

\* [b.strip() for b in bullets_input.splitlines() if b.strip()]
RECURSIVE StrippedNonEmpty(_)
StrippedNonEmpty(lines) ==
    IF lines = <<>> THEN <<>>
    ELSE (IF Strip(Head(lines)) # <<>> THEN <<Strip(Head(lines))>> ELSE <<>>)
         \o StrippedNonEmpty(Tail(lines))

\* The widgets the model leaves at the value the script gives them (lengths
\* in tenths of an inch, the line spacing in hundredths: 1.15 is 115).
font_name == "Times New Roman"
font_size == 12
line_spacing == 115
alignment == "Left"
logo_w == 10
logo_h == 10
header_text == <<>>
footer_text == <<>>
hf_size == 10
hf_align == "Center"
fig_w == 40
fig_h == 30

MarginLabels == <<"Top Margin", "Bottom Margin", "Left Margin", "Right Margin">>

\* st.session_state after a run of the script with the margin inputs at m:
\* the four keyed number inputs, then session_state["margins"] = margins.
SessionState(m) ==
    [k \in 1..4 |-> [key |-> MarginLabels[k], value |-> [t |-> "float", v |-> m[k]]]]
    \o <<[key |-> "margins",
          value |-> [t |-> "list", v |-> [k \in 1..4 |-> [t |-> "float", v |-> m[k]]]]]>>

\* st.session_state["margins"], as the numbers set_margins is called with.
StateMargins(state) ==
    LET e == CHOOSE x \in {state[k] : k \in 1..Len(state)} : x.key = "margins"
    IN  [k \in 1..Len(e.value.v) |-> e.value.v[k].v]

Idle ==
    [handler |-> "none", error |-> "", engine |-> <<>>, calls |-> <<>>,
     saved |-> <<>>, name |-> "", cfg |-> <<>>]

GenerateHandler_blank_on_missing(uploaded, lg, title, bullets_text, fig, cap, pos, state) ==
    LET d0 == IF uploaded = <<>> THEN BlankDocument ELSE uploaded[1]
        m == StateMargins(state)
        d1 == set_margins(set_alignment(set_line_spacing(
                  set_font(d0, font_name, font_size), line_spacing), alignment),
                  m[1], m[2], m[3], m[4])
        d3 == set_header_footer(d1, header_text, footer_text, hf_size, hf_align)
    IN  [Idle EXCEPT !.handler = "generate",
                     !.error = IF uploaded = <<>> THEN "Please upload a DOCX first!" ELSE "",
                     !.engine = <<d0>>,
                     !.calls = <<"set_font", "set_line_spacing", "set_alignment",
                                 "set_margins", "set_header_footer", "save">>,
                     !.saved = <<d3>>]

GenerateHandler_header_before_logo(uploaded, lg, title, bullets_text, fig, cap, pos, state) ==
    IF uploaded = <<>>
    THEN [Idle EXCEPT !.handler = "generate", !.error = "Please upload a DOCX first!"]
    ELSE
    LET d0 == uploaded[1]
        m == StateMargins(state)
        d1 == set_margins(set_alignment(set_line_spacing(
                  set_font(d0, font_name, font_size), line_spacing), alignment),
                  m[1], m[2], m[3], m[4])
        d2 == set_header_footer(d1, header_text, footer_text, hf_size, hf_align)
        d3 == IF lg # <<>> THEN add_logo(d2, lg[1], logo_w, logo_h) ELSE d2
        bullets == StrippedNonEmpty(SplitLines(bullets_text))
        d4 == IF Strip(title) # <<>> THEN add_section_title(d3, Strip(title)) ELSE d3
        d5 == IF bullets # <<>> THEN add_bullet_list(d4, bullets) ELSE d4
        d6 == IF fig # <<>> THEN add_figure(d5, fig[1], fig_w, fig_h, cap, pos) ELSE d5
    IN  [Idle EXCEPT !.handler = "generate",
                     !.engine = <<d0>>,
                     !.calls = <<"set_font", "set_line_spacing", "set_alignment", "set_margins">>
                               \o <<"set_header_footer">>
                               \o (IF lg # <<>> THEN <<"add_logo">> ELSE <<>>)
                               \o (IF Strip(title) # <<>> THEN <<"add_section_title">> ELSE <<>>)
                               \o (IF bullets # <<>> THEN <<"add_bullet_list">> ELSE <<>>)
                               \o (IF fig # <<>> THEN <<"add_figure">> ELSE <<>>)
                               \o <<"save">>,
                     !.saved = <<d6>>]

\* "if st.button('Generate & Download')": what the handler does with the
\* widgets' values: the error it shows, the engine it constructs, the engine
\* methods it calls, in order, and the document eng.save writes.
GenerateHandler(uploaded, lg, title, bullets_text, fig, cap, pos, state) ==
    IF uploaded = <<>>
    THEN [Idle EXCEPT !.handler = "generate", !.error = "Please upload a DOCX first!"]
    ELSE
    LET d0 == uploaded[1]
        m == StateMargins(state)
        d1 == set_margins(set_alignment(set_line_spacing(
                  set_font(d0, font_name, font_size), line_spacing), alignment),
                  m[1], m[2], m[3], m[4])
        d2 == IF lg # <<>> THEN add_logo(d1, lg[1], logo_w, logo_h) ELSE d1
        d3 == set_header_footer(d2, header_text, footer_text, hf_size, hf_align)
        bullets == StrippedNonEmpty(SplitLines(bullets_text))
        d4 == IF Strip(title) # <<>> THEN add_section_title(d3, Strip(title)) ELSE d3
        d5 == IF bullets # <<>> THEN add_bullet_list(d4, bullets) ELSE d4
        d6 == IF fig # <<>> THEN add_figure(d5, fig[1], fig_w, fig_h, cap, pos) ELSE d5
    IN  [Idle EXCEPT !.handler = "generate",
                     !.engine = <<d0>>,
                     !.calls = <<"set_font", "set_line_spacing", "set_alignment", "set_margins">>
                               \o (IF lg # <<>> THEN <<"add_logo">> ELSE <<>>)
                               \o <<"set_header_footer">>
                               \o (IF Strip(title) # <<>> THEN <<"add_section_title">> ELSE <<>>)
                               \o (IF bullets # <<>> THEN <<"add_bullet_list">> ELSE <<>>)
                               \o (IF fig # <<>> THEN <<"add_figure">> ELSE <<>>)
                               \o <<"save">>,
                     !.saved = <<d6>>]

\* What the user can put into the widgets.
BaseUploads == {<<>>, <<ReportDocument>>}
LogoUploads == {<<>>, <<"logo.png">>}
TitleInputs == {<<>>, <<" ">>, <<" ", "T">>}
BulletInputs == {<<>>, <<" ", "\n">>, <<"a", "\n", "b">>}
FigureUploads == {<<>>, <<"fig.png">>}
CaptionInputs == {<<>>, <<"F">>}
CaptionPositions == {"Above", "Below"}
TemplateNames == {"", "a"}
MarginInputs == {<<10, 10, 10, 10>>, <<5, 10, 10, 10>>}

\* Every interaction reruns the script: what a button handler showed is gone
\* after the next widget change.
UploadBase ==
    /\ \E f \in BaseUploads : uploaded_file' = f
    /\ run' = Idle
    /\ UNCHANGED <<logo, section_title, bullets_input, figure, caption, caption_pos,
                   new_name, session_state, templates>>
    /\ UNCHANGED engineVars

UploadLogo ==
    /\ \E f \in LogoUploads : logo' = f
    /\ run' = Idle
    /\ UNCHANGED <<uploaded_file, section_title, bullets_input, figure, caption,
                   caption_pos, new_name, session_state, templates>>
    /\ UNCHANGED engineVars

TypeSectionTitle ==
    /\ \E t \in TitleInputs : section_title' = t
    /\ run' = Idle
    /\ UNCHANGED <<uploaded_file, logo, bullets_input, figure, caption, caption_pos,
                   new_name, session_state, templates>>
    /\ UNCHANGED engineVars

TypeBullets ==
    /\ \E t \in BulletInputs : bullets_input' = t
    /\ run' = Idle
    /\ UNCHANGED <<uploaded_file, logo, section_title, figure, caption, caption_pos,
                   new_name, session_state, templates>>
    /\ UNCHANGED engineVars

UploadFigure ==
    /\ \E f \in FigureUploads : figure' = f
    /\ run' = Idle
    /\ UNCHANGED <<uploaded_file, logo, section_title, bullets_input, caption,
                   caption_pos, new_name, session_state, templates>>
    /\ UNCHANGED engineVars

TypeCaption ==
    /\ \E t \in CaptionInputs : caption' = t
    /\ run' = Idle
    /\ UNCHANGED <<uploaded_file, logo, section_title, bullets_input, figure,
                   caption_pos, new_name, session_state, templates>>
    /\ UNCHANGED engineVars

ChooseCaptionPosition ==
    /\ \E pos \in CaptionPositions : caption_pos' = pos
    /\ run' = Idle
    /\ UNCHANGED <<uploaded_file, logo, section_title, bullets_input, figure, caption,
                   new_name, session_state, templates>>
    /\ UNCHANGED engineVars

TypeTemplateName ==
    /\ \E name \in TemplateNames : new_name' = name
    /\ run' = Idle
    /\ UNCHANGED <<uploaded_file, logo, section_title, bullets_input, figure, caption,
                   caption_pos, session_state, templates>>
    /\ UNCHANGED engineVars

EditMargins ==
    /\ \E m \in MarginInputs : session_state' = SessionState(m)
    /\ run' = Idle
    /\ UNCHANGED <<uploaded_file, logo, section_title, bullets_input, figure, caption,
                   caption_pos, new_name, templates>>
    /\ UNCHANGED engineVars

\* sel = st.selectbox(...); cfg = load_template(sel if sel != "<none>" else "")
SelectTemplate ==
    /\ \E sel \in {"<none>"} \cup list_templates(templates) :
          run' = [Idle EXCEPT !.handler = "load", !.name = sel,
                      !.cfg = load_template(templates,
                                            IF sel # "<none>" THEN sel ELSE "").value]
    /\ UNCHANGED <<uploaded_file, logo, section_title, bullets_input, figure, caption,
                   caption_pos, new_name, session_state, templates>>
    /\ UNCHANGED engineVars

\* if st.button("Save Template"): save_template(new_name, st.session_state)
ClickSaveTemplate ==
    /\ templates' = save_template(templates, new_name, session_state)
    /\ run' = [Idle EXCEPT !.handler = "save", !.name = new_name, !.cfg = session_state]
    /\ UNCHANGED <<uploaded_file, logo, section_title, bullets_input, figure, caption,
                   caption_pos, new_name, session_state>>
    /\ UNCHANGED engineVars

\* if sel != "<none>" and st.button("Delete Template"): delete_template(sel)
ClickDeleteTemplate ==
    /\ \E sel \in list_templates(templates) :
          /\ sel # "<none>"
          /\ templates' = delete_template(templates, sel)
          /\ run' = [Idle EXCEPT !.handler = "delete", !.name = sel]
    /\ UNCHANGED <<uploaded_file, logo, section_title, bullets_input, figure, caption,
                   caption_pos, new_name, session_state>>
    /\ UNCHANGED engineVars

ClickGenerate ==
    /\ run' = GenerateHandler(uploaded_file, logo, section_title, bullets_input, figure,
                              caption, caption_pos, session_state)
    /\ UNCHANGED <<uploaded_file, logo, section_title, bullets_input, figure, caption,
                   caption_pos, new_name, session_state, templates>>
    /\ UNCHANGED engineVars

---------------------------------------------------------------------------
(* Specifications.                                                         *)

\* The widgets as the script's first run leaves them; TEMPLATE_DIR just made.
ShellStart ==
    /\ uploaded_file = <<>>
    /\ logo = <<>>
    /\ section_title = <<>>
    /\ bullets_input = <<>>
    /\ figure = <<>>
    /\ caption = <<>>
    /\ caption_pos = "Above"
    /\ new_name = ""
    /\ session_state = SessionState(<<10, 10, 10, 10>>)
    /\ templates = [f \in {} |-> <<>>]
    /\ run = Idle

\* An engine constructed from one of the base documents.
Init ==
    /\ doc \in BaseDocuments
    /\ prev = doc
    /\ log = <<>>
    /\ ShellStart

Next ==
    \/ SetFont
    \/ SetLineSpacing
    \/ SetAlignment
    \/ SetMargins
    \/ AddLogo
    \/ SetHeaderFooter
    \/ AddSectionTitle
    \/ AddBulletList
    \/ AddFigure

Spec == Init /\ [][Next]_vars

\* The shell: no engine exists outside the Generate handler.
ShellInit ==
    /\ doc = BlankDocument
    /\ prev = BlankDocument
    /\ log = <<>>
    /\ ShellStart

ShellNext ==
    \/ UploadBase
    \/ UploadLogo
    \/ TypeSectionTitle
    \/ TypeBullets
    \/ UploadFigure
    \/ TypeCaption
    \/ ChooseCaptionPosition
    \/ TypeTemplateName
    \/ EditMargins
    \/ SelectTemplate
    \/ ClickSaveTemplate
    \/ ClickDeleteTemplate
    \/ ClickGenerate

ShellSpec == ShellInit /\ [][ShellNext]_vars

---------------------------------------------------------------------------
(* Properties of the engine, checked under Spec.                           *)

Acted(op) == Len(log) > 0 /\ log[Len(log)].op = op

LastArgs == log[Len(log)].args

\* The texts of a paragraph's runs, and whether a run holds a picture.
Texts(p) == [k \in 1..Len(p.runs) |-> p.runs[k].text]
HoldsPicture(p) == \E k \in 1..Len(p.runs) : p.runs[k].pic # <<>>

\* C1: add_logo followed by set_header_footer leaves the paragraph holding
\* the logo image as the first paragraph of the first section's header and
\* the paragraph holding the header text as its last paragraph, and these
\* are two paragraphs: the logo paragraph is the one add_logo made, untouched.
C1_LogoFirstTextLast ==
    (/\ Len(log) >= 2
     /\ log[Len(log) - 1].op = "add_logo"
     /\ log[Len(log)].op = "set_header_footer")
    => LET ps == doc.sections[1].header.paras
           before == prev.sections[1].header.paras
           image == log[Len(log) - 1].args[1]
       IN  /\ ~doc.sections[1].header.linked
           /\ Len(ps) >= 2
           /\ ps[1] = before[1]
           /\ Len(ps[1].runs) = 1
           /\ ps[1].runs[1].pic # <<>>
           /\ ps[1].runs[1].pic[1].image = image
           /\ Texts(ps[Len(ps)]) = <<LastArgs[1]>>
           /\ ~HoldsPicture(ps[Len(ps)])

\* C1's case: the two calls were made on a header that showed no paragraph
\* or one paragraph, so that the header now holds exactly the two.
C1_Witness ==
    /\ Len(log) >= 2
    /\ log[Len(log) - 1].op = "add_logo"
    /\ log[Len(log)].op = "set_header_footer"
    /\ Len(doc.sections[1].header.paras) = 2
    /\ HoldsPicture(doc.sections[1].header.paras[1])

\* The paragraphs of the body that the last call appended.
Appended == SubSeq(doc.body, Len(prev.body) + 1, Len(doc.body))

\* C2: repeating a non-appending operation with the same arguments changes
\* nothing; repeating an appending one adds the same paragraphs once more
\* (add_logo: one more logo paragraph in front of the header).
C2_IdempotentOrAdditive ==
    Len(log) > 0 =>
    LET a == LastArgs IN
    /\ Acted("set_font") => set_font(doc, a[1], a[2]) = doc
    /\ Acted("set_line_spacing") => set_line_spacing(doc, a[1]) = doc
    /\ Acted("set_alignment") => set_alignment(doc, a[1]) = doc
    /\ Acted("set_margins") => set_margins(doc, a[1], a[2], a[3], a[4]) = doc
    /\ Acted("set_header_footer") => set_header_footer(doc, a[1], a[2], a[3], a[4]) = doc
    /\ Acted("add_section_title") =>
          /\ Len(Appended) = 1
          /\ add_section_title(doc, a[1]).body = doc.body \o Appended
    /\ Acted("add_bullet_list") =>
          /\ Len(Appended) = Len(a[1])
          /\ add_bullet_list(doc, a[1]).body = doc.body \o Appended
    /\ Acted("add_figure") =>
          /\ Len(Appended) >= 1
          /\ add_figure(doc, a[1], a[2], a[3], a[4], a[5]).body = doc.body \o Appended
    /\ Acted("add_logo") =>
          add_logo(doc, a[1], a[2], a[3]).sections[1].header.paras
              = <<doc.sections[1].header.paras[1]>> \o doc.sections[1].header.paras

\* C2's case: set_header_footer has just run on a document in which it had
\* to create a footer paragraph and replace existing header runs.
C2_Witness ==
    /\ Acted("set_header_footer")
    /\ doc # prev
    /\ Len(prev.sections) = 2
    /\ set_header_footer(doc, LastArgs[1], LastArgs[2], LastArgs[3], LastArgs[4]) = doc

IsImageParagraph(p, image, w, h) ==
    /\ Len(p.runs) = 1
    /\ p.runs[1].pic = <<[image |-> image, cx |-> w * 91440, cy |-> h * 91440]>>

IsCaptionParagraph(p, text) == p.style = "Caption" /\ Texts(p) = <<text>>

\* C6: add_figure appends, after the paragraphs already in the body (which
\* stay as they were): with a non-empty caption and position Above the
\* caption paragraph then the image paragraph; with position Below the image
\* paragraph then the caption paragraph; with an empty caption the image
\* paragraph alone.
C6_FigureParagraphs ==
    Acted("add_figure") =>
    LET a == LastArgs IN
    /\ SubSeq(doc.body, 1, Len(prev.body)) = prev.body
    /\ doc.sections = prev.sections
    /\ (a[4] # "" /\ a[5] = "Above") =>
          /\ Len(Appended) = 2
          /\ IsCaptionParagraph(Appended[1], a[4])
          /\ IsImageParagraph(Appended[2], a[1], a[2], a[3])
    /\ (a[4] # "" /\ a[5] = "Below") =>
          /\ Len(Appended) = 2
          /\ IsImageParagraph(Appended[1], a[1], a[2], a[3])
          /\ IsCaptionParagraph(Appended[2], a[4])
    /\ a[4] = "" =>
          /\ Len(Appended) = 1
          /\ IsImageParagraph(Appended[1], a[1], a[2], a[3])

\* C6's case: a captioned figure placed Above, after existing paragraphs.
C6_Witness ==
    /\ Acted("add_figure")
    /\ LastArgs[4] # ""
    /\ LastArgs[5] = "Above"
    /\ Len(prev.body) > 0
    /\ Len(doc.body) = Len(prev.body) + 2

\* C7: an alignment value that set_alignment does not know (outside Left,
\* Center, Right, Justify) gives the document that "Left" gives, and so does
\* one that set_header_footer does not know (outside Left, Center, Right:
\* "Justify" is one).
C7_UnknownAlignmentIsLeft ==
    /\ (Acted("set_alignment") /\ LastArgs[1] \notin {"Left", "Center", "Right", "Justify"})
       => /\ doc = set_alignment(prev, "Left")
          /\ \A p \in 1..Len(doc.body) : doc.body[p].alignment = "LEFT"
    /\ (Acted("set_header_footer") /\ LastArgs[4] \notin {"Left", "Center", "Right"})
       => /\ doc = set_header_footer(prev, LastArgs[1], LastArgs[2], LastArgs[3], "Left")
          /\ \A i \in 1..Len(doc.sections) :
                LET hs == Paragraphs(doc.sections, i, "header")
                    fs == Paragraphs(doc.sections, i, "footer")
                IN  hs[Len(hs)].alignment = "LEFT" /\ fs[1].alignment = "LEFT"

\* C7's case: set_header_footer was called with "Justify" on a document whose
\* target header paragraph was aligned otherwise.
C7_Witness ==
    /\ Acted("set_header_footer")
    /\ LastArgs[4] = "Justify"
    /\ Len(Paragraphs(prev.sections, 1, "header")) = 2
    /\ Paragraphs(prev.sections, 1, "header")[2].alignment = "RIGHT"

\* C8: right after set_font(name, size) every run of every body paragraph
\* has font name `name` and font size `size` points.
C8_FontEverywhere ==
    Acted("set_font") =>
    \A p \in 1..Len(doc.body) : \A k \in 1..Len(doc.body[p].runs) :
        LET r == doc.body[p].runs[k] IN
        /\ r.name = LastArgs[1]
        /\ r.sz # <<>>
        /\ FontSizePt(r) = LastArgs[2]

\* C8's case: set_font ran on a paragraph of two runs, one of another font
\* and size, one with neither set.
C8_Witness ==
    /\ Acted("set_font")
    /\ \E p \in 1..Len(prev.body) :
          /\ Len(prev.body[p].runs) = 2
          /\ prev.body[p].runs[1].name \notin {LastArgs[1], "None"}
          /\ prev.body[p].runs[2].sz = <<>>

\* The paragraphs set_header_footer writes to, for section i: the last one the
\* header shows and the first one the footer shows.
HeaderTarget(secs, i) ==
    LET ps == Paragraphs(secs, i, "header") IN ps[Len(ps)]
FooterTarget(secs, i) == Paragraphs(secs, i, "footer")[1]

\* Whether that paragraph held at least one run before the call (a paragraph
\* the call had to create held none).
HeaderTargetHadRuns(secs, i) ==
    /\ Paragraphs(secs, i, "header") # <<>>
    /\ HeaderTarget(secs, i).runs # <<>>
FooterTargetHadRuns(secs, i) ==
    /\ Paragraphs(secs, i, "footer") # <<>>
    /\ FooterTarget(secs, i).runs # <<>>

SizeApplied(p, size) ==
    /\ Len(p.runs) = 1
    /\ p.runs[1].sz # <<>>
    /\ FontSizePt(p.runs[1]) = size

ExpectedHFAlignment(align) ==
    IF align = "Center" THEN "CENTER" ELSE IF align = "Right" THEN "RIGHT" ELSE "LEFT"

\* C9 as stated: the size reaches the target paragraph only if it held a run
\* before the text assignment; a paragraph that held none keeps a run of
\* default size.  (The header of a section is judged by what the section
\* showed before the whole call; the first section is the unambiguous one.)
C9_SizeOnlyIfRunBefore ==
    Acted("set_header_footer") =>
    /\ HeaderTargetHadRuns(prev.sections, 1)
          => SizeApplied(HeaderTarget(doc.sections, 1), LastArgs[3])
    /\ ~HeaderTargetHadRuns(prev.sections, 1)
          => HeaderTarget(doc.sections, 1).runs[1].sz = <<>>
    /\ FooterTargetHadRuns(prev.sections, 1)
          => SizeApplied(FooterTarget(doc.sections, 1), LastArgs[3])
    /\ ~FooterTargetHadRuns(prev.sections, 1)
          => FooterTarget(doc.sections, 1).runs[1].sz = <<>>

\* C9, amended: set_header_footer leaves every target paragraph (each
\* section's last header paragraph and first footer paragraph) with exactly
\* one run, of the size given, whether or not the paragraph held a run
\* before; and with the alignment given (Left for an unknown one).
C9_SizeAlwaysApplied ==
    Acted("set_header_footer") =>
    \A i \in 1..Len(doc.sections) :
        /\ SizeApplied(HeaderTarget(doc.sections, i), LastArgs[3])
        /\ SizeApplied(FooterTarget(doc.sections, i), LastArgs[3])
        /\ HeaderTarget(doc.sections, i).alignment = ExpectedHFAlignment(LastArgs[4])
        /\ FooterTarget(doc.sections, i).alignment = ExpectedHFAlignment(LastArgs[4])

\* C9's case: the header's last paragraph existed and held no run before the
\* call, and holds the sized run after it.
C9_Witness ==
    /\ Acted("set_header_footer")
    /\ Paragraphs(prev.sections, 1, "header") # <<>>
    /\ HeaderTarget(prev.sections, 1).runs = <<>>
    /\ SizeApplied(HeaderTarget(doc.sections, 1), LastArgs[3])

\* What a paragraph says, apart from its formatting.
Content(p) ==
    [style |-> p.style,
     runs |-> [k \in 1..Len(p.runs) |-> [text |-> p.runs[k].text, pic |-> p.runs[k].pic]]]

\* C10: set_font, set_line_spacing and set_alignment keep the number, order
\* and text of the body paragraphs and leave every section (its header, its
\* footer, its margins) as it was; set_margins changes the four margins of
\* the first section and nothing else.
C10_Frame ==
    /\ (Acted("set_font") \/ Acted("set_line_spacing") \/ Acted("set_alignment"))
       => /\ Len(doc.body) = Len(prev.body)
          /\ \A p \in 1..Len(doc.body) : Content(doc.body[p]) = Content(prev.body[p])
          /\ doc.sections = prev.sections
    /\ Acted("set_margins")
       => /\ doc.body = prev.body
          /\ Len(doc.sections) = Len(prev.sections)
          /\ doc.sections[1].header = prev.sections[1].header
          /\ doc.sections[1].footer = prev.sections[1].footer
          /\ doc.sections[1].margins =
                [top |-> LastArgs[1] * 144, bottom |-> LastArgs[2] * 144,
                 left |-> LastArgs[3] * 144, right |-> LastArgs[4] * 144]
          /\ \A i \in 2..Len(doc.sections) : doc.sections[i] = prev.sections[i]

\* C10's case: set_margins changed the first section's margins in a document
\* of two sections.
C10_Witness ==
    /\ Acted("set_margins")
    /\ Len(doc.sections) = 2
    /\ doc.sections[1].margins # prev.sections[1].margins
    /\ doc.sections[2].margins # doc.sections[1].margins

---------------------------------------------------------------------------
(* Properties of the shell and the template helpers, under ShellSpec.      *)

\* C3 as stated: after save_template(name, cfg), load_template(name) returns
\* a mapping equal to cfg, for every name the text input supplies.
C3_TemplateRoundTrip ==
    run.handler = "save" =>
        load_template(templates, run.name) = [raised |-> "None", value |-> run.cfg]

FixedOrder ==
    <<"set_font", "set_line_spacing", "set_alignment", "set_margins", "add_logo",
      "set_header_footer", "add_section_title", "add_bullet_list", "add_figure">>

\* C4 as stated: with a base document supplied, Generate calls the nine
\* operations once each in the fixed order, then save.
C4_AllNineCalled ==
    (run.handler = "generate" /\ uploaded_file # <<>>)
        => run.calls = FixedOrder \o <<"save">>

HasVisibleCharacter(text) == \E k \in 1..Len(text) : text[k] \notin {" ", "\n", "\t"}

\* Whether Generate has an input for the operation.
Supplied(op) ==
    CASE op = "add_logo" -> logo # <<>>
      [] op = "add_section_title" -> HasVisibleCharacter(section_title)
      [] op = "add_bullet_list" -> HasVisibleCharacter(bullets_input)
      [] op = "add_figure" -> figure # <<>>
      [] OTHER -> TRUE

\* C4, amended: with a base document supplied, Generate calls set_font,
\* set_line_spacing, set_alignment, set_margins and set_header_footer once
\* each, and add_logo, add_section_title, add_bullet_list and add_figure once
\* each exactly when their input is supplied (a logo, a title that is not
\* blank, a bullet text with a line that is not blank, a figure); the calls
\* made are in the fixed order, save follows them, and no error is shown.
C4_SuppliedCalledInOrder ==
    (run.handler = "generate" /\ uploaded_file # <<>>)
        => /\ run.calls = SelectSeq(FixedOrder, Supplied) \o <<"save">>
           /\ run.error = ""
           /\ run.engine = uploaded_file
           /\ run.saved # <<>>

\* C4's case: a generation with a base document and a logo, but a blank
\* title and no figure.
C4_Witness ==
    /\ run.handler = "generate"
    /\ uploaded_file # <<>>
    /\ logo # <<>>
    /\ section_title = <<" ">>
    /\ figure = <<>>
    /\ Len(run.calls) = 7

\* C5: Generate without a base document shows an error, constructs no
\* engine, calls no operation and no save, and writes no file.
C5_NoBaseNoMutation ==
    (run.handler = "generate" /\ uploaded_file = <<>>)
        => /\ run.error # ""
           /\ run.engine = <<>>
           /\ run.calls = <<>>
           /\ run.saved = <<>>

\* C5's case: Generate was clicked with every input but the base document.
C5_Witness ==
    /\ run.handler = "generate"
    /\ uploaded_file = <<>>
    /\ logo # <<>>
    /\ figure # <<>>
    /\ HasVisibleCharacter(section_title)
    /\ run.error = "Please upload a DOCX first!"

====
